---- MODULE Spec2Model ----
(***************************************************************************)
(* A model of the rust_rtree crate: rectangle arithmetic (geometries.rs),  *)
(* geometry entries, index nodes with insert (nodes.rs, utils.rs) and the  *)
(* quadratic split (impl RtreeSplit for RtreeNode in nodes.rs).            *)
(*                                                                         *)
(* Coordinates and areas are i64 in the crate.  The model keeps the two's  *)
(* complement arithmetic but at IntBits bits, so that the sentinels INF    *)
(* and NEGINF (i64::MAX and i64::MIN in lib.rs) and the overflow of        *)
(* count_area are representable.                                           *)
(***************************************************************************)
EXTENDS Integers, Sequences, FiniteSets, TLC

\* ------------------------------------------------------------------ bounds
\* width of the machine integer standing for i64
IntBits == 8
\* coordinates of the geometries are drawn from 0..MaxCoord
MaxCoord == 2
\* longest coordinate sequence handed to generate_mbr / RtreeGeometry::new
MaxLen == 3

\* ------------------------------------------------------- machine integers
Pow2(n) == 2 ^ n

\* lib.rs: const INF: i64 = INFINITY as i64 (saturating cast: i64::MAX)
INF == Pow2(IntBits - 1) - 1

\* lib.rs: const NEGINF: i64 = NEG_INFINITY as i64 (i64::MIN)
NEGINF == 0 - Pow2(IntBits - 1)

\* does the exact result x leave the machine integer range
Overflows(x) == x > INF \/ x < NEGINF

\* two's complement wrap of the exact result x (a build without overflow checks)
Wrap(x) == ((x - NEGINF) % Pow2(IntBits)) + NEGINF

\* ---------------------------------------------------------- BoundingRectangle
\* Coordinates = (i64, i64): a pair <<x, y>>
\* BoundingRectangle::count_area: (right.0 - left.0) * (right.1 - left.1)
count_area(left, right) ==
    Wrap(Wrap(right[1] - left[1]) * Wrap(right[2] - left[2]))

\* count_area overflows i64 somewhere (a panic in a build with overflow checks)
count_area_overflows(left, right) ==
    \/ Overflows(right[1] - left[1])
    \/ Overflows(right[2] - left[2])
    \/ Overflows(Wrap(right[1] - left[1]) * Wrap(right[2] - left[2]))

\* BoundingRectangle::new: stores the corners as given, computes the area
BoundingRectangle_new(left, right) ==
    [left |-> left, right |-> right, area |-> count_area(left, right)]

\* one pass of the loop body of generate_mbr over coordinate c;
\* acc = <<min_x, min_y, max_x, max_y>>
generate_mbr_step(acc, c) ==
    LET x == c[1]
        y == c[2]
        min_x == IF x < acc[1] THEN x ELSE acc[1]
        max_x == IF x < acc[1] THEN acc[3] ELSE IF x > acc[3] THEN x ELSE acc[3]
        min_y == IF y < acc[2] THEN y ELSE acc[2]
        max_y == IF y < acc[2] THEN acc[4] ELSE IF y > acc[4] THEN y ELSE acc[4]
    IN  <<min_x, min_y, max_x, max_y>>

RECURSIVE generate_mbr_loop(_, _, _)
generate_mbr_loop(coords, k, acc) ==
    IF k > Len(coords) THEN acc
    ELSE generate_mbr_loop(coords, k + 1, generate_mbr_step(acc, coords[k]))

\* the four trackers when the loop of generate_mbr ends
generate_mbr_bounds(coords) ==
    generate_mbr_loop(coords, 1, <<INF, INF, NEGINF, NEGINF>>)

\* BoundingRectangle::generate_mbr
generate_mbr(coords) ==
    LET b == generate_mbr_bounds(coords)
    IN  BoundingRectangle_new(<<b[1], b[2]>>, <<b[3], b[4]>>)

\* generate_mbr panics in count_area when the build checks overflow
generate_mbr_overflows(coords) ==
    LET b == generate_mbr_bounds(coords)
    IN  count_area_overflows(<<b[1], b[2]>>, <<b[3], b[4]>>)

\* common_mbr_step as it would be with the else-if chains of generate_mbr
common_mbr_step_else_if(acc, mbr) ==
    << IF mbr.left[1] < acc[1] THEN mbr.left[1] ELSE acc[1],
       IF mbr.left[2] < acc[2] THEN mbr.left[2] ELSE acc[2],
       IF mbr.left[1] < acc[1] THEN acc[3]
       ELSE IF mbr.right[1] > acc[3] THEN mbr.right[1] ELSE acc[3],
       IF mbr.left[2] < acc[2] THEN acc[4]
       ELSE IF mbr.right[2] > acc[4] THEN mbr.right[2] ELSE acc[4] >>

\* one pass of the loop body of common_mbr; acc = <<min_x, min_y, max_x, max_y>>
common_mbr_step(acc, mbr) ==
    << IF mbr.left[1] < acc[1] THEN mbr.left[1] ELSE acc[1],
       IF mbr.left[2] < acc[2] THEN mbr.left[2] ELSE acc[2],
       IF mbr.right[1] > acc[3] THEN mbr.right[1] ELSE acc[3],
       IF mbr.right[2] > acc[4] THEN mbr.right[2] ELSE acc[4] >>

RECURSIVE common_mbr_loop(_, _, _)
common_mbr_loop(list_mbrs, k, acc) ==
    IF k > Len(list_mbrs) THEN acc
    ELSE common_mbr_loop(list_mbrs, k + 1, common_mbr_step(acc, list_mbrs[k]))

\* BoundingRectangle::common_mbr
common_mbr(list_mbrs) ==
    LET b == common_mbr_loop(list_mbrs, 1, <<INF, INF, NEGINF, NEGINF>>)
    IN  BoundingRectangle_new(<<b[1], b[2]>>, <<b[3], b[4]>>)

\* common_mbr panics in count_area when the build checks overflow
common_mbr_overflows(list_mbrs) ==
    LET b == common_mbr_loop(list_mbrs, 1, <<INF, INF, NEGINF, NEGINF>>)
    IN  count_area_overflows(<<b[1], b[2]>>, <<b[3], b[4]>>)

\* cmp::max / cmp::min on i64
cmp_max(a, b) == IF a >= b THEN a ELSE b
cmp_min(a, b) == IF a <= b THEN a ELSE b

\* BoundingRectangle::overlap_rectangle
overlap_rectangle(rect_1, rect_2) ==
    BoundingRectangle_new(
        << cmp_max(rect_1.left[1], rect_2.left[1]),
           cmp_max(rect_1.left[2], rect_2.left[2]) >>,
        << cmp_min(rect_1.right[1], rect_2.right[1]),
           cmp_min(rect_1.right[2], rect_2.right[2]) >>)

\* overlap_rectangle panics in count_area when the build checks overflow
overlap_rectangle_overflows(rect_1, rect_2) ==
    count_area_overflows(overlap_rectangle(rect_1, rect_2).left,
                         overlap_rectangle(rect_1, rect_2).right)

\* intersects as it would be if rectangles sharing only a boundary were apart
intersects_open(self, rectangle) ==
    IF (self.left[1] >= rectangle.right[1]) \/ (rectangle.left[1] >= self.right[1])
    THEN FALSE
    ELSE IF (self.right[2] <= rectangle.left[2]) \/ (rectangle.right[2] <= self.left[2])
         THEN FALSE
         ELSE TRUE

\* BoundingRectangle::intersects
intersects(self, rectangle) ==
    IF (self.left[1] > rectangle.right[1]) \/ (rectangle.left[1] > self.right[1])
    THEN FALSE
    ELSE IF (self.right[2] < rectangle.left[2]) \/ (rectangle.right[2] < self.left[2])
         THEN FALSE
         ELSE TRUE

\* ------------------------------------------------------------ RtreeGeometry
\* the classification as it would be if only a single coordinate made a Point
coordtype_of_single(coords) ==
    IF Len(coords) = 1 THEN "Point"
    ELSE IF Len(coords) >= 2 /\ coords[1] = coords[Len(coords)] THEN "Polygon"
    ELSE "Line"

\* the classification as it would be if the first two coordinates were compared
coordtype_of_first_two(coords) ==
    IF Len(coords) < 2 THEN "Point"
    ELSE IF coords[1] = coords[2] THEN "Polygon"
    ELSE "Line"

\* RtreeGeometry::new, the classification of the coordinate sequence
coordtype_of(coords) ==
    IF Len(coords) < 2 THEN "Point"
    ELSE IF coords[1] = coords[Len(coords)] THEN "Polygon"
    ELSE "Line"

\* find_mbr indexes coords[0] in its Point arm: out of bounds on an empty vector
find_mbr_panics(coordtype, coords) == coordtype = "Point" /\ Len(coords) = 0

\* RtreeGeometry::new panics on the index of find_mbr
RtreeGeometry_new_panics(coords) == find_mbr_panics(coordtype_of(coords), coords)

\* RtreeGeometry::find_mbr
find_mbr(coordtype, coords) ==
    IF coordtype = "Point" THEN BoundingRectangle_new(coords[1], coords[1])
    ELSE generate_mbr(coords)

\* find_mbr panics in count_area when the build checks overflow
find_mbr_overflows(coordtype, coords) ==
    IF coordtype = "Point" THEN count_area_overflows(coords[1], coords[1])
    ELSE generate_mbr_overflows(coords)

\* RtreeGeometry::new for a non-empty coords; parent 0 is None
RtreeGeometry_new(coords) ==
    [coords |-> coords,
     mbr |-> find_mbr(coordtype_of(coords), coords),
     coordtype |-> coordtype_of(coords),
     parent |-> 0]

\* ------------------------------------------------------------------ utils
\* one pass of the loop body of find_least_enlargement over the k-th node mbr;
\* acc = [min |-> min_enlargement, idx |-> chosen_node (0: never written),
\*        mbr |-> min_mbr]
find_least_enlargement_step(acc, k, node_mbr, mbr) ==
    LET enlarged == common_mbr(<<node_mbr, mbr>>)
        enlargement == Wrap(enlarged.area - node_mbr.area)
    IN  IF enlargement < acc.min
        THEN [min |-> enlargement, idx |-> k, mbr |-> enlarged]
        ELSE acc

RECURSIVE find_least_enlargement_loop(_, _, _, _)
find_least_enlargement_loop(list_mbrs, mbr, k, acc) ==
    IF k > Len(list_mbrs) THEN acc
    ELSE find_least_enlargement_loop(list_mbrs, mbr, k + 1,
            find_least_enlargement_step(acc, k, list_mbrs[k], mbr))

\* utils::find_least_enlargement over the mbrs of list_nodes: the position of
\* the chosen node and the enlarged rectangle; idx = 0 when chosen_node and
\* min_mbr were never written (assume_init of uninitialised memory)
find_least_enlargement(list_mbrs, mbr) ==
    find_least_enlargement_loop(list_mbrs, mbr, 1,
        [min |-> INF, idx |-> 0, mbr |-> mbr])

\* ------------------------------------------------------------- split engine
\* Vec::remove(i) for a 1-based position i
Remove(s, i) == SubSeq(s, 1, i - 1) \o SubSeq(s, i + 1, Len(s))

\* the pairs (i, j), i < j, in the order the two loops of pick_seeds visit them
RECURSIVE pick_seeds_loop(_, _, _, _)
pick_seeds_loop(mbrs, i, j, acc) ==
    IF i > Len(mbrs) THEN acc
    ELSE IF j > Len(mbrs) THEN pick_seeds_loop(mbrs, i + 1, i + 2, acc)
    ELSE LET area == common_mbr(<<mbrs[i], mbrs[j]>>).area
         IN  pick_seeds_loop(mbrs, i, j + 1,
                IF area > acc.max THEN [max |-> area, objs |-> <<i, j>>] ELSE acc)

\* RtreeNode::pick_seeds, the pair objs it settles on (1-based positions);
\* <<0, 0>> when objs was never written
pick_seeds_objs(mbrs) ==
    pick_seeds_loop(mbrs, 1, 2, [max |-> NEGINF, objs |-> <<0, 0>>]).objs

\* one pass of the loop of pick_next_node / pick_next_leaf;
\* acc = [min |-> min_d, chosen |-> chosen (0: never written)]
RECURSIVE pick_next_loop(_, _, _, _, _)
pick_next_loop(mbr_1, mbr_2, mbrs, i, acc) ==
    IF i > Len(mbrs) THEN acc
    ELSE LET area_1 == common_mbr(<<mbr_1, mbrs[i]>>).area
             area_2 == common_mbr(<<mbr_2, mbrs[i]>>).area
             d == Wrap(area_1 - area_2)
         IN  pick_next_loop(mbr_1, mbr_2, mbrs, i + 1,
                IF d < acc.min THEN [min |-> d, chosen |-> i] ELSE acc)

\* RtreeNode::pick_next_node / pick_next_leaf: the position removed from objects
pick_next(mbr_1, mbr_2, mbrs) ==
    pick_next_loop(mbr_1, mbr_2, mbrs, 1, [min |-> INF, chosen |-> 0]).chosen

\* RtreeNode::pick_underfull, peak = (max_objs - max_objs / 2) + 1
peak(max_objs) == (max_objs - (max_objs \div 2)) + 1

\* RtreeNode::pick_underfull: 1 for Some(node_1), 2 for Some(node_2), 0 for None
pick_underfull(n1, n2) ==
    IF Len(n1.children) = peak(n1.max_children) THEN 1
    ELSE IF Len(n2.children) = peak(n1.max_children) THEN 2
    ELSE 0

\* the loop `for i in 0..objects.len() { objects.remove(i); value.add(obj) }`
\* of validate_nodes_quantity / validate_leafs_quantity, n = objects.len() at
\* its start, i 0-based; Vec::remove panics when i >= len
RECURSIVE validate_loop(_, _, _, _)
validate_loop(objects, moved, i, n) ==
    IF i >= n THEN [objects |-> objects, moved |-> moved, panicked |-> FALSE]
    ELSE IF i >= Len(objects)
         THEN [objects |-> objects, moved |-> moved, panicked |-> TRUE]
         ELSE validate_loop(Remove(objects, i + 1), Append(moved, objects[i + 1]),
                            i + 1, n)

\* ------------------------------------------------------------------ state
VARIABLES
    node,        \* arena of RtreeNode: id -> [kind, children, mbr, max_children, parent]
    root,        \* id of the node the driver calls insert on
    geoms,       \* RtreeGeometry entries created so far: id -> [coords, mbr, coordtype, parent]
    pc,          \* position of the running operation
    cur,         \* the node whose insert / split is executing (self); 0 when idle
    geom,        \* id of the entry handed to the last insert call; 0 before the first
    node_1,      \* first group built by pick_seeds / returned by execute
    node_2,      \* second group built by pick_seeds / returned by execute
    it_i,        \* loop counter i of distribute_nodes / distribute_leafs
    it_n,        \* objects.len() taken when that loop starts
    objects0,    \* history: self.children as they were when split was called
    overflow_checks,  \* build profile: TRUE panics on integer overflow, FALSE wraps
    g_fn,        \* the rectangle / geometry function under check
    g_coords,    \* its coordinate-sequence argument
    g_rects,     \* its rectangle arguments
    g_mbr,       \* its BoundingRectangle result
    g_bool,      \* its bool result
    g_geom,      \* its RtreeGeometry result
    g_pc         \* "start", "done" or "panicked"

vars == <<node, root, geoms, pc, cur, geom, node_1, node_2, it_i, it_n, objects0,
          overflow_checks, g_fn, g_coords, g_rects, g_mbr, g_bool, g_geom, g_pc>>

treeVars == <<node, root, geoms, pc, cur, geom, node_1, node_2, it_i, it_n, objects0>>

geomVars == <<overflow_checks, g_fn, g_coords, g_rects, g_mbr, g_bool, g_geom, g_pc>>

\* ------------------------------------------- rectangle functions, on their own
Coords == (0..MaxCoord) \X (0..MaxCoord)

RECURSIVE SeqsUpTo(_, _)
SeqsUpTo(S, n) ==
    IF n = 0 THEN {<<>>}
    ELSE LET shorter == SeqsUpTo(S, n - 1)
         IN  shorter \cup {Append(q, x) : q \in {r \in shorter : Len(r) = n - 1}, x \in S}

\* the rectangle a variable holds before any function has produced one
NoRect == BoundingRectangle_new(<<0, 0>>, <<0, 0>>)

\* RtreeNode::new: an empty children collection of the requested kind, no parent
RtreeNode_new(rectangle, max_children, kind) ==
    [kind |-> kind, children |-> <<>>, mbr |-> rectangle,
     max_children |-> max_children, parent |-> 0]

\* node_1 / node_2 while no split has built them
NoGroup == [id |-> 0] @@ RtreeNode_new(NoRect, 0, "Leafs")

\* the entry a variable holds before RtreeGeometry::new has produced one
NoGeom == [coords |-> <<>>, mbr |-> NoRect, coordtype |-> "Point", parent |-> 0]

\* longest list of rectangles handed to common_mbr
MaxRects == 2

\* a coordinate whose square no longer fits the machine integer
BigCoord == Pow2(IntBits \div 2)

\* corners for the rectangles whose area may overflow
WideCoords == {0, 1, BigCoord} \X {0, 1, BigCoord}

\* left is componentwise <= right
WellFormed(r) == r.left[1] <= r.right[1] /\ r.left[2] <= r.right[2]

\* the rectangles BoundingRectangle::new returns for corners in S under the
\* build profile checks (a build that checks overflow panics instead)
Rects(S, checks) ==
    {BoundingRectangle_new(c[1], c[2]) :
        c \in {d \in S \X S : ~(checks /\ count_area_overflows(d[1], d[2]))}}

InitGeom ==
    /\ \/ /\ g_fn = "generate_mbr"
          /\ overflow_checks \in BOOLEAN
          /\ g_coords \in SeqsUpTo(Coords, MaxLen) \ {<<>>}
          /\ g_rects = <<>>
       \/ /\ g_fn = "RtreeGeometry_new"
          /\ overflow_checks \in BOOLEAN
          /\ g_coords \in SeqsUpTo(Coords, MaxLen)
          /\ g_rects = <<>>
       \/ /\ g_fn = "BoundingRectangle_new"
          /\ overflow_checks \in BOOLEAN
          /\ g_coords \in {<<l, r>> : l \in WideCoords, r \in WideCoords}
          /\ g_rects = <<>>
       \/ /\ g_fn = "intersects"
          /\ overflow_checks = FALSE
          /\ g_coords = <<>>
          /\ g_rects \in {<<a, b>> : a \in Rects(Coords, FALSE),
                                     b \in Rects(Coords, FALSE)}
       \/ /\ g_fn = "overlap_rectangle"
          /\ overflow_checks \in BOOLEAN
          /\ g_coords = <<>>
          /\ g_rects \in {<<a, b>> :
                            a \in {r \in Rects(Coords, FALSE) : WellFormed(r)},
                            b \in {r \in Rects(Coords, FALSE) : WellFormed(r)}}
       \/ /\ g_fn = "common_mbr"
          /\ overflow_checks \in BOOLEAN
          /\ g_coords = <<>>
          /\ g_rects \in SeqsUpTo({r \in Rects(WideCoords, overflow_checks) :
                                       WellFormed(r)}, MaxRects) \ {<<>>}
    /\ g_mbr = NoRect
    /\ g_bool = FALSE
    /\ g_geom = NoGeom
    /\ g_pc = "start"
    /\ node = <<>>
    /\ root = 0
    /\ geoms = <<>>
    /\ pc = "idle"
    /\ cur = 0
    /\ geom = 0
    /\ node_1 = NoGroup
    /\ node_2 = NoGroup
    /\ it_i = 0
    /\ it_n = 0
    /\ objects0 = <<>>

\* what a call leaves alone besides its result and g_pc
geomArgs == <<overflow_checks, g_fn, g_coords, g_rects>>

\* a call of BoundingRectangle::generate_mbr(&g_coords) that returns
GenerateMbr ==
    /\ g_pc = "start"
    /\ g_fn = "generate_mbr"
    /\ ~(overflow_checks /\ generate_mbr_overflows(g_coords))
    /\ g_mbr' = generate_mbr(g_coords)
    /\ g_pc' = "done"
    /\ UNCHANGED <<geomArgs, g_bool, g_geom>>
    /\ UNCHANGED treeVars

\* a call of BoundingRectangle::generate_mbr(&g_coords) that panics in count_area
GenerateMbrPanic ==
    /\ g_pc = "start"
    /\ g_fn = "generate_mbr"
    /\ overflow_checks /\ generate_mbr_overflows(g_coords)
    /\ g_pc' = "panicked"
    /\ UNCHANGED <<geomArgs, g_mbr, g_bool, g_geom>>
    /\ UNCHANGED treeVars

\* a call of RtreeGeometry::new(g_coords): panics on the index coords[0] of an
\* empty vector or in count_area, else returns the entry
RtreeGeometryNew ==
    /\ g_pc = "start"
    /\ g_fn = "RtreeGeometry_new"
    /\ IF \/ RtreeGeometry_new_panics(g_coords)
          \/ overflow_checks /\ find_mbr_overflows(coordtype_of(g_coords), g_coords)
       THEN g_pc' = "panicked" /\ UNCHANGED g_geom
       ELSE g_pc' = "done" /\ g_geom' = RtreeGeometry_new(g_coords)
    /\ UNCHANGED <<geomArgs, g_mbr, g_bool>>
    /\ UNCHANGED treeVars

\* a call of BoundingRectangle::new(g_coords[1], g_coords[2])
BoundingRectangleNew ==
    /\ g_pc = "start"
    /\ g_fn = "BoundingRectangle_new"
    /\ IF overflow_checks /\ count_area_overflows(g_coords[1], g_coords[2])
       THEN g_pc' = "panicked" /\ UNCHANGED g_mbr
       ELSE g_pc' = "done" /\ g_mbr' = BoundingRectangle_new(g_coords[1], g_coords[2])
    /\ UNCHANGED <<geomArgs, g_bool, g_geom>>
    /\ UNCHANGED treeVars

\* a call of g_rects[1].intersects(&g_rects[2])
Intersects ==
    /\ g_pc = "start"
    /\ g_fn = "intersects"
    /\ g_bool' = intersects(g_rects[1], g_rects[2])
    /\ g_pc' = "done"
    /\ UNCHANGED <<geomArgs, g_mbr, g_geom>>
    /\ UNCHANGED treeVars

\* a call of BoundingRectangle::overlap_rectangle(&g_rects[1], &g_rects[2])
OverlapRectangle ==
    /\ g_pc = "start"
    /\ g_fn = "overlap_rectangle"
    /\ IF overflow_checks /\ overlap_rectangle_overflows(g_rects[1], g_rects[2])
       THEN g_pc' = "panicked" /\ UNCHANGED g_mbr
       ELSE g_pc' = "done" /\ g_mbr' = overlap_rectangle(g_rects[1], g_rects[2])
    /\ UNCHANGED <<geomArgs, g_bool, g_geom>>
    /\ UNCHANGED treeVars

\* a call of BoundingRectangle::common_mbr(&g_rects)
CommonMbr ==
    /\ g_pc = "start"
    /\ g_fn = "common_mbr"
    /\ IF overflow_checks /\ common_mbr_overflows(g_rects)
       THEN g_pc' = "panicked" /\ UNCHANGED g_mbr
       ELSE g_pc' = "done" /\ g_mbr' = common_mbr(g_rects)
    /\ UNCHANGED <<geomArgs, g_bool, g_geom>>
    /\ UNCHANGED treeVars

NextGeom ==
    \/ GenerateMbr
    \/ GenerateMbrPanic
    \/ RtreeGeometryNew
    \/ BoundingRectangleNew
    \/ Intersects
    \/ OverlapRectangle
    \/ CommonMbr

SpecGeom == InitGeom /\ [][NextGeom]_vars

\* ------------------------------------------------------------------- tree
\* largest max_children a tree is built with
MaxCap == 6
\* the driver creates entries until the tree holds max_children + Extra of them
Extra == 1

\* the coordinate sequences the driver builds entries from
GeomPool == { << <<0, 0>> >>, << <<2, 2>> >>, << <<0, 0>>, <<2, 1>> >> }

\* the entries the driver places in the leaves before the first insert
InitCoords == << << <<1, 1>> >>, << <<0, 2>> >>, << <<2, 0>> >> >>

\* the ids pick_seeds' two RtreeNode::new calls get from generate_id: fresh,
\* so different from every node of the arena
GroupId1 == Len(node) + 1
GroupId2 == Len(node) + 2

\* mbr of child c of a node of the given kind
ChildMbr(kind, c) == IF kind = "Leafs" THEN geoms[c].mbr ELSE node[c].mbr

MbrsOf(kind, children) ==
    [k \in 1..Len(children) |-> ChildMbr(kind, children[k])]

Range(s) == {s[k] : k \in 1..Len(s)}

\* a Leafs root (node 1) of capacity M: empty for the small capacities, and for
\* the larger ones holding M - FreeInserts entries already, each built from
\* FillCoords and assigned to its children by the driver as main.rs does, its
\* mbr enclosing them
FreeInserts == 3

FillCoords == << <<0, 0>> >>

LeafFill(M) == IF M > FreeInserts THEN M - FreeInserts ELSE 0

TreeLeaf(M) ==
    LET k == LeafFill(M)
        g == RtreeGeometry_new(FillCoords)
    IN  [node |-> << [RtreeNode_new(g.mbr, M, "Leafs")
                        EXCEPT !.children = [i \in 1..k |-> i]] >>,
         geoms |-> [i \in 1..k |-> g]]

\* an Inner root without children, as RtreeNode::new(rect, M, InnerNodes) leaves it
TreeEmptyInner(M) ==
    [node |-> << RtreeNode_new(RtreeGeometry_new(InitCoords[1]).mbr, M, "InnerNodes") >>,
     geoms |-> <<>>]

\* main.rs generalised to k leaves: an Inner root (node 1) whose children are
\* k Leafs nodes, leaf i holding the single entry i and carrying its mbr
TreeWide(M, k) ==
    LET gs == [i \in 1..k |-> RtreeGeometry_new(InitCoords[i])]
        leaf(i) == [RtreeNode_new(gs[i].mbr, M, "Leafs") EXCEPT !.children = <<i>>]
        rootMbr == common_mbr([i \in 1..k |-> gs[i].mbr])
    IN  [node |-> << [RtreeNode_new(rootMbr, M, "InnerNodes")
                        EXCEPT !.children = [i \in 1..k |-> i + 1]] >>
                  \o [i \in 1..k |-> leaf(i)],
         geoms |-> gs]

\* three levels: root 1 -> Inner node 2 -> Leafs nodes 3 and 4 with one entry each
TreeDeep(M) ==
    LET gs == [i \in 1..2 |-> RtreeGeometry_new(InitCoords[i])]
        leaf(i) == [RtreeNode_new(gs[i].mbr, M, "Leafs") EXCEPT !.children = <<i>>]
        both == common_mbr(<<gs[1].mbr, gs[2].mbr>>)
    IN  [node |-> << [RtreeNode_new(both, M, "InnerNodes") EXCEPT !.children = <<2>>],
                     [RtreeNode_new(both, M, "InnerNodes") EXCEPT !.children = <<3, 4>>],
                     leaf(1), leaf(2) >>,
         geoms |-> gs]

\* capacities of the trees that have inner levels (main.rs builds with 4)
InnerCaps == {2, 4}

InitTrees ==
    {TreeLeaf(M) : M \in 2..MaxCap}
    \cup UNION { {TreeEmptyInner(M), TreeDeep(M)}
                 \cup {TreeWide(M, k) : k \in 1..Len(InitCoords)} : M \in InnerCaps }

Init ==
    /\ \E t \in InitTrees : node = t.node /\ geoms = t.geoms
    /\ root = 1
    /\ pc = "idle"
    /\ cur = 0
    /\ geom = 0
    /\ node_1 = NoGroup
    /\ node_2 = NoGroup
    /\ it_i = 0
    /\ it_n = 0
    /\ objects0 = <<>>
    /\ overflow_checks = FALSE
    /\ g_fn = "none"
    /\ g_coords = <<>>
    /\ g_rects = <<>>
    /\ g_mbr = NoRect
    /\ g_bool = FALSE
    /\ g_geom = NoGeom
    /\ g_pc = "start"

\* ---------------------------------------------------------------- insert
\* the driver builds an entry with RtreeGeometry::new(coords) and calls
\* root.insert(entry)
InsertCall(coords) ==
    /\ pc = "idle"
    /\ Len(geoms) < node[root].max_children + Extra
    /\ geoms' = Append(geoms, RtreeGeometry_new(coords))
    /\ geom' = Len(geoms) + 1
    /\ cur' = root
    /\ pc' = "insert"
    /\ UNCHANGED <<node, root, node_1, node_2, it_i, it_n, objects0>>
    /\ UNCHANGED geomVars

\* the InnerNodes arm as it would be without set_mbr before the recursive insert
InsertInner_recurse_only ==
    /\ pc = "insert"
    /\ node[cur].kind = "InnerNodes"
    /\ LET le == find_least_enlargement(
                    MbrsOf("InnerNodes", node[cur].children), geoms[geom].mbr)
       IN  /\ le.idx # 0
           /\ cur' = node[cur].children[le.idx]
    /\ UNCHANGED <<node, root, geoms, pc, geom, node_1, node_2, it_i, it_n, objects0>>
    /\ UNCHANGED geomVars

\* RtreeNode::insert, the InnerNodes arm: find_least_enlargement over the
\* children, set_mbr on the chosen child, then the recursive insert into it
InsertInner ==
    /\ pc = "insert"
    /\ node[cur].kind = "InnerNodes"
    /\ LET le == find_least_enlargement(
                    MbrsOf("InnerNodes", node[cur].children), geoms[geom].mbr)
       IN  /\ le.idx # 0
           /\ LET obj_to_enl == node[cur].children[le.idx]
              IN  /\ node' = [node EXCEPT ![obj_to_enl].mbr = le.mbr]
                  /\ cur' = obj_to_enl
    /\ UNCHANGED <<root, geoms, pc, geom, node_1, node_2, it_i, it_n, objects0>>
    /\ UNCHANGED geomVars

\* rectangles an uninitialised BoundingRectangle may turn out to hold
GarbageRects ==
    {NoRect, BoundingRectangle_new(<<MaxCoord, MaxCoord>>, <<0, 0>>)}

\* RtreeNode::insert, the InnerNodes arm when find_least_enlargement never wrote
\* chosen_node and min_mbr (no child, or no enlargement below INF): assume_init
\* of uninitialised memory.  The build may crash, or carry on with whatever
\* node and rectangle the memory holds.
InsertInnerUninit ==
    /\ pc = "insert"
    /\ node[cur].kind = "InnerNodes"
    /\ find_least_enlargement(
          MbrsOf("InnerNodes", node[cur].children), geoms[geom].mbr).idx = 0
    /\ \/ /\ pc' = "crashed"
          /\ UNCHANGED <<node, cur>>
       \/ \E n \in 1..Len(node), r \in GarbageRects :
            /\ node' = [node EXCEPT ![n].mbr = r]
            /\ cur' = n
            /\ pc' = pc
    /\ UNCHANGED <<root, geoms, geom, node_1, node_2, it_i, it_n, objects0>>
    /\ UNCHANGED geomVars

\* the Leafs arm as it would be if the push replaced the stored entries
InsertLeaf_overwrites ==
    /\ pc = "insert"
    /\ node[cur].kind = "Leafs"
    /\ node' = [node EXCEPT ![cur].children = <<geom>>]
    /\ cur' = 0
    /\ pc' = "idle"
    /\ UNCHANGED <<root, geoms, geom, node_1, node_2, it_i, it_n, objects0>>
    /\ UNCHANGED geomVars

\* RtreeNode::insert, the Leafs arm: objs.push(geom); every insert frame returns
InsertLeaf ==
    /\ pc = "insert"
    /\ node[cur].kind = "Leafs"
    /\ node' = [node EXCEPT ![cur].children = Append(@, geom)]
    /\ cur' = 0
    /\ pc' = "idle"
    /\ UNCHANGED <<root, geoms, geom, node_1, node_2, it_i, it_n, objects0>>
    /\ UNCHANGED geomVars

\* ----------------------------------------------------------------- split
\* the nodes of the subtree under n, n included
RECURSIVE Subtree(_)
Subtree(n) ==
    IF node[n].kind = "Leafs" THEN {n}
    ELSE {n} \cup UNION {Subtree(node[n].children[k]) : k \in 1..Len(node[n].children)}

\* a group as pick_seeds builds it: RtreeNode::new(*obj.mbr(), self.max_children,
\* child_type), then children = child_type(vec!(obj))
SeedGroup(id, self, obj) ==
    [id |-> id]
    @@ [RtreeNode_new(ChildMbr(node[self].kind, obj), node[self].max_children,
                      node[self].kind)
          EXCEPT !.children = <<obj>>]

\* split -> execute -> pick_seeds on node n: the seed pair is taken out of
\* self.children (objects aliases it) and the two groups are built; execute
\* then enters the loop of distribute_nodes / distribute_leafs
SplitCall(n) ==
    /\ pc = "idle"
    /\ n \in Subtree(root)
    /\ LET objects == node[n].children
           objs == pick_seeds_objs(MbrsOf(node[n].kind, objects))
       IN  /\ objs # <<0, 0>>
           /\ LET obj_1 == objects[objs[1]]
                  obj_2 == objects[objs[2]]
                  rest == Remove(Remove(objects, objs[1]), objs[2] - 1)
              IN  /\ node_1' = SeedGroup(GroupId1, n, obj_1)
                  /\ node_2' = SeedGroup(GroupId2, n, obj_2)
                  /\ node' = [node EXCEPT ![n].children = rest]
                  /\ it_n' = Len(rest)
    /\ it_i' = 0
    /\ cur' = n
    /\ objects0' = node[n].children
    /\ pc' = "distribute"
    /\ UNCHANGED <<root, geoms, geom>>
    /\ UNCHANGED geomVars

\* values an uninitialised usize of pick_seeds' objs may turn out to hold
GarbageIdx == 0..2

\* split -> execute -> pick_seeds on node n when objs was never written (fewer
\* than two children, or no pair with common area above NEGINF): assume_init of
\* uninitialised memory yields some pair (i, j); objects.remove(i) panics when
\* i is out of range, objects.remove(j - 1) when j - 1 underflows or is out of
\* range after the first removal
SplitCallUninit(n) ==
    /\ pc = "idle"
    /\ n \in Subtree(root)
    /\ pick_seeds_objs(MbrsOf(node[n].kind, node[n].children)) = <<0, 0>>
    /\ \E i \in GarbageIdx, j \in GarbageIdx :
         LET objects == node[n].children
             first_ok == i < Len(objects)
             after == IF first_ok THEN Remove(objects, i + 1) ELSE objects
             second_ok == first_ok /\ j >= 1 /\ j - 1 < Len(after)
         IN  IF second_ok
             THEN /\ node_1' = SeedGroup(GroupId1, n, objects[i + 1])
                  /\ node_2' = SeedGroup(GroupId2, n, after[j])
                  /\ node' = [node EXCEPT ![n].children = Remove(after, j)]
                  /\ it_n' = Len(after) - 1
                  /\ pc' = "distribute"
             ELSE /\ node' = [node EXCEPT ![n].children = after]
                  /\ pc' = "panicked"
                  /\ UNCHANGED <<node_1, node_2, it_n>>
    /\ it_i' = 0
    /\ cur' = n
    /\ objects0' = node[n].children
    /\ UNCHANGED <<root, geoms, geom>>
    /\ UNCHANGED geomVars

\* one pass of the loop of distribute_nodes / distribute_leafs in which
\* validate_*_quantity finds pick_underfull = Some(value): the remaining
\* objects are moved into value by the remove(i) loop (value.mbr is not
\* assigned: new_mbr is computed and dropped), then `break` and execute returns
DistributeShortcut ==
    /\ pc = "distribute"
    /\ it_i < it_n
    /\ pick_underfull(node_1, node_2) # 0
    /\ LET objects == node[cur].children
           r == validate_loop(objects, <<>>, 0, Len(objects))
       IN  /\ node' = [node EXCEPT ![cur].children = r.objects]
           /\ IF pick_underfull(node_1, node_2) = 1
              THEN /\ node_1' = [node_1 EXCEPT !.children = @ \o r.moved]
                   /\ node_2' = node_2
              ELSE /\ node_2' = [node_2 EXCEPT !.children = @ \o r.moved]
                   /\ node_1' = node_1
           /\ pc' = IF r.panicked THEN "panicked" ELSE "executed"
    /\ UNCHANGED <<root, geoms, cur, geom, it_i, it_n, objects0>>
    /\ UNCHANGED geomVars

\* one pass of that loop in which validate_*_quantity returns false:
\* pick_next_* removes an object, find_least_enlargement over (node_1, node_2)
\* picks its group, whose mbr is set to the enlarged rectangle and which
\* receives the object
DistributeNext ==
    /\ pc = "distribute"
    /\ it_i < it_n
    /\ pick_underfull(node_1, node_2) = 0
    /\ LET objects == node[cur].children
           chosen == pick_next(node_1.mbr, node_2.mbr,
                               MbrsOf(node[cur].kind, objects))
       IN  /\ chosen # 0
           /\ LET insert_obj == objects[chosen]
                  to_insert == find_least_enlargement(
                                  <<node_1.mbr, node_2.mbr>>,
                                  ChildMbr(node[cur].kind, insert_obj))
              IN  /\ to_insert.idx # 0
                  /\ node' = [node EXCEPT ![cur].children = Remove(objects, chosen)]
                  /\ IF to_insert.idx = 1
                     THEN /\ node_1' = [node_1 EXCEPT !.mbr = to_insert.mbr,
                                                      !.children = Append(@, insert_obj)]
                          /\ node_2' = node_2
                     ELSE /\ node_2' = [node_2 EXCEPT !.mbr = to_insert.mbr,
                                                      !.children = Append(@, insert_obj)]
                          /\ node_1' = node_1
    /\ it_i' = it_i + 1
    /\ UNCHANGED <<root, geoms, pc, cur, geom, it_n, objects0>>
    /\ UNCHANGED geomVars

\* the range 0..objects.len() of that loop is exhausted: execute returns
\* (node_1, node_2)
DistributeEnd ==
    /\ pc = "distribute"
    /\ it_i = it_n
    /\ pc' = "executed"
    /\ UNCHANGED <<node, root, geoms, cur, geom, node_1, node_2, it_i, it_n, objects0>>
    /\ UNCHANGED geomVars

\* what Weak::from_raw(self as *const RtreeNode).upgrade() may yield: the
\* pointer never came from Weak::into_raw, so the build may find no live node
\* ("none"), hand back self ("self"), or crash
UpgradeOutcomes == {"none", "self", "crash"}

\* RtreeSplit::split after execute returned: self.children = nodes.0.children,
\* self.mbr = nodes.0.mbr (nodes.1 is dropped); for InnerNodes children,
\* set_parent(self) on each when the upgrade yields a pointer.  The match has
\* no arm for Leafs.  The tuple execute returned is dropped when split returns.
SplitFinish ==
    /\ pc = "executed"
    /\ \E up \in IF node_1.kind = "InnerNodes" THEN UpgradeOutcomes ELSE {"none"} :
         LET assigned == [node EXCEPT ![cur].children = node_1.children,
                                      ![cur].mbr = node_1.mbr]
         IN  /\ node' = IF up = "self"
                        THEN [k \in 1..Len(node) |->
                                IF k \in Range(node_1.children)
                                THEN [assigned[k] EXCEPT !.parent = cur]
                                ELSE assigned[k]]
                        ELSE assigned
             /\ pc' = IF up = "crash" THEN "crashed" ELSE "idle"
    /\ cur' = 0
    /\ node_1' = NoGroup
    /\ node_2' = NoGroup
    /\ it_i' = 0
    /\ it_n' = 0
    /\ objects0' = <<>>
    /\ UNCHANGED <<root, geoms, geom>>
    /\ UNCHANGED geomVars

Next ==
    \/ \E coords \in GeomPool : InsertCall(coords)
    \/ InsertInner
    \/ InsertInnerUninit
    \/ InsertLeaf
    \/ \E n \in 1..Len(node) : SplitCall(n)
    \/ \E n \in 1..Len(node) : SplitCallUninit(n)
    \/ DistributeShortcut
    \/ DistributeNext
    \/ DistributeEnd
    \/ SplitFinish

Spec == Init /\ [][Next]_vars

\* ----------------------------------------------------------------- claims
\* outer contains inner: left <= and right >= componentwise
Encloses(outer, inner) ==
    /\ outer.left[1] <= inner.left[1]
    /\ outer.left[2] <= inner.left[2]
    /\ outer.right[1] >= inner.right[1]
    /\ outer.right[2] >= inner.right[2]

\* the nodes of the tree whose subtree holds entry e in one of its leaves:
\* the leaf that owns e and every ancestor of it up to the root
AncestorsOf(e) ==
    {n \in Subtree(root) :
        \E l \in Subtree(n) : node[l].kind = "Leafs" /\ e \in Range(node[l].children)}

\* the step in which the Leafs arm of insert pushes the entry and insert returns
InsertReturns == pc = "insert" /\ pc' = "idle"

Min(S) == CHOOSE x \in S : \A y \in S : x <= y
Max(S) == CHOOSE x \in S : \A y \in S : x >= y

\* m = ceil(M / 2)
MinFill(M) == (M + 1) \div 2

\* the split under way was called on a node holding max_children + 1 children
SplitOfOverflow == Len(objects0) = node[cur].max_children + 1

\* C1: when insert returns, the leaf that received the entry and every ancestor
\* of it, the root insert was called on included, has an mbr that encloses the
\* entry's mbr.
C1_AncestorsEncloseEntry ==
    [][InsertReturns =>
        (\A n \in AncestorsOf(geom) : Encloses(node[n].mbr, geoms[geom].mbr))']_vars

\* C2: when no operation is running, every node of the tree with at least one
\* child has exactly the tightest rectangle around its children's mbrs as mbr.
C2_MbrIsTight ==
    pc = "idle" =>
        \A n \in Subtree(root) :
            node[n].children # <<>> =>
                LET tight == common_mbr(MbrsOf(node[n].kind, node[n].children))
                IN  node[n].mbr.left = tight.left /\ node[n].mbr.right = tight.right

\* C3: when insert returns, the node that received the entry holds at most
\* max_children children (an overflow was split before returning).
C3_NoOverflowAfterInsert ==
    [][InsertReturns =>
        Len(node'[cur].children) <= node'[cur].max_children]_vars

\* C4: when the split of a node that held max_children + 1 children returns,
\* both groups are in the tree as two children of one Inner node (the parent
\* of the split node, or a new root with exactly these two children).
C4_BothGroupsInTree ==
    [][(pc = "executed" /\ pc' = "idle" /\ SplitOfOverflow) =>
        \E p \in 1..Len(node') :
            /\ node'[p].kind = "InnerNodes"
            /\ p \in Subtree(root)'
            /\ cur = root => (p = root' /\ Len(node'[p].children) = 2)
            /\ \E a, b \in Range(node'[p].children) :
                 /\ a # b
                 /\ node'[a].children = node_1.children
                 /\ node'[b].children = node_2.children]_vars

\* C5: once the split engine has run on a node that held max_children + 1
\* children, the two groups partition those children (each in exactly one
\* group, once) and the source collection is empty.
C5_GroupsPartitionChildren ==
    (pc \in {"executed", "panicked"} /\ SplitOfOverflow) =>
        /\ node[cur].children = <<>>
        /\ Len(node_1.children) + Len(node_2.children) = Len(objects0)
        /\ Range(node_1.children) \cap Range(node_2.children) = {}
        /\ Range(node_1.children) \cup Range(node_2.children) = Range(objects0)

\* C6: after the split engine has run on a node that held max_children + 1
\* children, both groups hold at least ceil(max_children / 2) children.
C6_BothGroupsReachMinFill ==
    (pc = "executed" /\ SplitOfOverflow) =>
        /\ Len(node_1.children) >= MinFill(node[cur].max_children)
        /\ Len(node_2.children) >= MinFill(node[cur].max_children)

\* C7: after the split engine has run on a node that held max_children + 1
\* children, each group's mbr encloses the mbr of every child the group owns.
C7_GroupMbrEnclosesChildren ==
    (pc = "executed" /\ SplitOfOverflow) =>
        \A g \in {node_1, node_2} :
            \A c \in Range(g.children) : Encloses(g.mbr, ChildMbr(g.kind, c))

\* C8: generate_mbr of a non-empty coordinate sequence returns the rectangle
\* from (min x, min y) to (max x, max y) over the sequence.
C8_GenerateMbrIsMinMax ==
    (g_fn = "generate_mbr" /\ g_pc # "start") =>
        /\ g_pc = "done"
        /\ g_mbr.left = << Min({g_coords[k][1] : k \in 1..Len(g_coords)}),
                           Min({g_coords[k][2] : k \in 1..Len(g_coords)}) >>
        /\ g_mbr.right = << Max({g_coords[k][1] : k \in 1..Len(g_coords)}),
                            Max({g_coords[k][2] : k \in 1..Len(g_coords)}) >>

\* C9: when insert returns, the parent of the entry it appended designates the
\* leaf node that received it.
C9_EntryParentIsLeaf ==
    [][InsertReturns => geoms'[geom].parent = cur]_vars

\* the parent back-reference of child c of a node of the given kind
ChildParent(kind, c) == IF kind = "Leafs" THEN geoms[c].parent ELSE node[c].parent

\* C10: after the split engine has run on a node that held max_children + 1
\* children, the parent of every redistributed child designates the group that
\* now owns it.
C10_ChildParentIsGroup ==
    (pc = "executed" /\ SplitOfOverflow) =>
        \A g \in {node_1, node_2} :
            \A c \in Range(g.children) : ChildParent(g.kind, c) = g.id

\* a step in which the driver's call of split on a node starts executing
SplitCalled == pc = "idle" /\ pc' \notin {"idle", "insert"}

\* C11: a split called on a node that does not hold exactly max_children + 1
\* children ends in an error outcome without picking seeds, and leaves the
\* children, the mbr and the parent references of every node as they were.
C11_SplitRejectsWrongCount ==
    [][(SplitCalled /\ Len(node[cur'].children) # node[cur'].max_children + 1)
          => (pc' = "panicked" /\ node' = node /\ geoms' = geoms)]_vars

\* C12: intersects is true exactly when none of the four separation tests
\* holds, which for well-formed rectangles means that they share a point
\* (a shared boundary counts), and the answer does not depend on the order of
\* the two rectangles.
C12_IntersectsIsProjectionOverlap ==
    (g_fn = "intersects" /\ g_pc = "done") =>
        LET A == g_rects[1]
            B == g_rects[2]
        IN  /\ g_bool = ~(\/ A.left[1] > B.right[1]
                          \/ B.left[1] > A.right[1]
                          \/ A.right[2] < B.left[2]
                          \/ B.right[2] < A.left[2])
            /\ g_bool = intersects(B, A)
            /\ (WellFormed(A) /\ WellFormed(B)) =>
                  (g_bool <=> \E c \in Coords :
                                 /\ A.left[1] <= c[1] /\ c[1] <= A.right[1]
                                 /\ A.left[2] <= c[2] /\ c[2] <= A.right[2]
                                 /\ B.left[1] <= c[1] /\ c[1] <= B.right[1]
                                 /\ B.left[2] <= c[2] /\ c[2] <= B.right[2])

\* two rectangles of positive width that share only an edge were found to
\* intersect
C12_TouchingRectanglesIntersect ==
    /\ g_fn = "intersects"
    /\ g_pc = "done"
    /\ g_bool
    /\ WellFormed(g_rects[1]) /\ WellFormed(g_rects[2])
    /\ g_rects[1].left[1] < g_rects[1].right[1]
    /\ g_rects[1].right[1] = g_rects[2].left[1]
    /\ g_rects[2].left[1] < g_rects[2].right[1]

\* C13: RtreeGeometry::new on an empty coordinate sequence fails and produces
\* no entry.
C13_EmptyCoordsFail ==
    (g_fn = "RtreeGeometry_new" /\ g_coords = <<>> /\ g_pc # "start") =>
        (g_pc = "panicked" /\ g_geom = NoGeom)

\* RtreeGeometry::new was called on an empty coordinate sequence and panicked
C13_EmptyCoordsPanicked ==
    g_fn = "RtreeGeometry_new" /\ g_coords = <<>> /\ g_pc = "panicked"

\* the functions of geometries.rs that return a BoundingRectangle
RectangleMakers ==
    {"BoundingRectangle_new", "generate_mbr", "common_mbr", "overlap_rectangle"}

\* C14: BoundingRectangle::new fails when left is not componentwise <= right,
\* and every rectangle returned by new, generate_mbr, common_mbr and
\* overlap_rectangle has left <= right.
C14_RectanglesWellFormed ==
    (g_fn \in RectangleMakers /\ g_pc # "start") =>
        /\ g_pc = "done" => WellFormed(g_mbr)
        /\ (/\ g_fn = "BoundingRectangle_new"
            /\ ~(g_coords[1][1] <= g_coords[2][1] /\ g_coords[1][2] <= g_coords[2][2]))
              => g_pc = "panicked"

\* the rectangle from the least left corner to the greatest right corner of rects
MinLeft(rects) ==
    << Min({rects[k].left[1] : k \in 1..Len(rects)}),
       Min({rects[k].left[2] : k \in 1..Len(rects)}) >>
MaxRight(rects) ==
    << Max({rects[k].right[1] : k \in 1..Len(rects)}),
       Max({rects[k].right[2] : k \in 1..Len(rects)}) >>

\* common_mbr returned the rectangle from the least left to the greatest right
\* corner; for two rectangles it contains both and is at least as large as each
CommonMbrEnclosesAll ==
    /\ g_pc = "done"
    /\ g_mbr.left = MinLeft(g_rects)
    /\ g_mbr.right = MaxRight(g_rects)
    /\ Len(g_rects) = 2 =>
          /\ Encloses(g_mbr, g_rects[1])
          /\ Encloses(g_mbr, g_rects[2])
          /\ g_mbr.area >= Max({g_rects[1].area, g_rects[2].area})

\* the exact area of the rectangle enclosing rects is a machine integer
EnclosingAreaFits(rects) ==
    ~Overflows((MaxRight(rects)[1] - MinLeft(rects)[1])
               * (MaxRight(rects)[2] - MinLeft(rects)[2]))

C16_KindFollowsCoordinates ==
    (g_fn = "RtreeGeometry_new" /\ g_pc = "done") =>
        LET n == Len(g_coords)
            closed == n >= 2 /\ g_coords[1] = g_coords[n]
        IN  /\ g_geom.coordtype = "Point" <=> n < 2
            /\ g_geom.coordtype = "Polygon" <=> closed
            /\ g_geom.coordtype = "Line" <=> (n >= 2 /\ ~closed)
            /\ g_geom.coordtype = "Point" =>
                  /\ g_geom.mbr.left = g_coords[1]
                  /\ g_geom.mbr.right = g_coords[1]
                  /\ g_geom.mbr.area = 0

\* RtreeGeometry::new returned a Polygon whose first two coordinates differ
C16_PolygonEntryBuilt ==
    /\ g_fn = "RtreeGeometry_new"
    /\ g_pc = "done"
    /\ Len(g_coords) = 3
    /\ g_coords[1] # g_coords[2]
    /\ g_geom.coordtype = "Polygon"

\* area added to rectangle r by growing it to enclose rectangle e
Enlargement(r, e) == common_mbr(<<r, e>>).area - r.area

\* position k of list is no worse than position j: less enlargement for
\* entry mbr e, then less enclosing area, then earlier
PrefersChild(list, e, k, j) ==
    LET ek == Enlargement(list[k], e)
        ej == Enlargement(list[j], e)
        ak == common_mbr(<<list[k], e>>).area
        aj == common_mbr(<<list[j], e>>).area
    IN  \/ ek < ej
        \/ ek = ej /\ ak < aj
        \/ ek = ej /\ ak = aj /\ k <= j

\* C17: when insert runs on an InnerNodes node with at least one child, the
\* child it descends into has the least enlargement for the entry; among equal
\* enlargements the least resulting enclosing area; among those the earliest.
C17_DescendsIntoBestChild ==
    [][(/\ pc = "insert"
        /\ node[cur].kind = "InnerNodes"
        /\ Len(node[cur].children) >= 1
        /\ pc' = "insert")
          => LET list == MbrsOf("InnerNodes", node[cur].children)
             IN  \E k \in 1..Len(list) :
                    /\ node[cur].children[k] = cur'
                    /\ \A j \in 1..Len(list) :
                          PrefersChild(list, geoms[geom].mbr, k, j)]_vars

\* a step in which split -> execute -> pick_seeds has run on a node that held
\* max_children + 1 children
SeedsPicked ==
    /\ pc = "idle"
    /\ pc' = "distribute"
    /\ Len(node[cur'].children) = node[cur'].max_children + 1

\* enclosing area of a and b that neither covers
Waste(a, b) == common_mbr(<<a, b>>).area - a.area - b.area

\* the pairs i < j of positions of list, and the earliest pair of greatest waste
Pairs(list) == {q \in (1..Len(list)) \X (1..Len(list)) : q[1] < q[2]}
EarlierPair(q, r) == q[1] < r[1] \/ (q[1] = r[1] /\ q[2] <= r[2])
MostWastefulPair(list) ==
    CHOOSE q \in Pairs(list) :
        \A r \in Pairs(list) :
            \/ Waste(list[q[1]], list[q[2]]) > Waste(list[r[1]], list[r[2]])
            \/ /\ Waste(list[q[1]], list[q[2]]) = Waste(list[r[1]], list[r[2]])
               /\ EarlierPair(q, r)

\* C18: pick_seeds on a node holding max_children + 1 children takes the pair
\* i < j of greatest waste, the earliest such pair; both seeds leave the source
\* collection, group 1 starts with seed i alone and group 2 with seed j alone,
\* each with the mbr of its seed.
C18_SeedsMaximiseWaste ==
    [][SeedsPicked =>
          LET n == cur'
              objects == node[n].children
              list == MbrsOf(node[n].kind, objects)
              q == MostWastefulPair(list)
          IN  /\ node_1'.children = <<objects[q[1]]>>
              /\ node_2'.children = <<objects[q[2]]>>
              /\ node_1'.mbr = list[q[1]]
              /\ node_2'.mbr = list[q[2]]
              /\ node'[n].children = Remove(Remove(objects, q[1]), q[2] - 1)]_vars

\* a step of the loop of distribute_* that assigns one object by pick_next,
\* in the split of a node that held max_children + 1 children
NextPicked ==
    /\ pc = "distribute"
    /\ it_i' = it_i + 1
    /\ SplitOfOverflow

Abs(x) == IF x < 0 THEN 0 - x ELSE x

\* how much the object with mbr e prefers one of the two groups
Preference(e) ==
    Abs(Enlargement(node_1.mbr, e) - Enlargement(node_2.mbr, e))

\* C19: in a distribution step that is not short-circuited, the object taken
\* out of the remaining ones is the one with the greatest absolute difference
\* of its enlargement of group 1 and of group 2, the earliest on ties.
C19_PicksStrongestPreference ==
    [][NextPicked =>
          LET objects == node[cur].children
              list == MbrsOf(node[cur].kind, objects)
              best == Min({i \in 1..Len(list) :
                            \A j \in 1..Len(list) :
                                Preference(list[i]) >= Preference(list[j])})
          IN  node'[cur].children = Remove(objects, best)]_vars

\* a pass of the loop of distribute_* in the split of a node that held
\* max_children + 1 children: the point where the min-fill check is due
DistributionDecision ==
    /\ pc = "distribute"
    /\ it_i < it_n
    /\ SplitOfOverflow
    /\ vars' # vars

\* group g needs every remaining object to reach m = ceil(M / 2)
NeedsAllRemaining(g) ==
    Len(g.children) + Len(node[cur].children) = MinFill(node[cur].max_children)

\* C20: before every distribution decision the min-fill shortcut is evaluated;
\* it fires exactly when exactly one group needs all the remaining objects to
\* reach m, moves all of them into that group and none into the other, and
\* ends the distribution.
C20_ShortcutFillsUnderfullGroup ==
    [][DistributionDecision =>
          LET only_1 == NeedsAllRemaining(node_1) /\ ~NeedsAllRemaining(node_2)
              only_2 == NeedsAllRemaining(node_2) /\ ~NeedsAllRemaining(node_1)
              remaining == Range(node[cur].children)
          IN  /\ (pc' # "distribute") <=> (only_1 \/ only_2)
              /\ (pc' # "distribute") =>
                    /\ pc' = "executed"
                    /\ node'[cur].children = <<>>
                    /\ only_1 =>
                          /\ Range(node_1'.children)
                                = Range(node_1.children) \cup remaining
                          /\ node_2' = node_2
                    /\ only_2 =>
                          /\ Range(node_2'.children)
                                = Range(node_2.children) \cup remaining
                          /\ node_1' = node_1]_vars

\* the nodes on the way from the node insert was called on down to node l,
\* that node excluded and l included
PathBelowRoot(l) == {n \in Subtree(root) \ {root} : l \in Subtree(n)}

\* a step in which insert, on an InnerNodes node with a child, starts the
\* recursive insert into the child it chose
InsertDescends ==
    /\ pc = "insert"
    /\ node[cur].kind = "InnerNodes"
    /\ Len(node[cur].children) >= 1
    /\ pc' = "insert"

\* C21: when insert starts the recursive insert into the chosen child, that
\* child's mbr has already been set to the rectangle enclosing its old mbr and
\* the entry's mbr; and when the entry is appended to the leaf, every node on
\* the path below the node insert was called on encloses the entry's mbr.
C21_ChildEnlargedBeforeDescent ==
    [][/\ InsertDescends =>
             /\ cur' \in Range(node[cur].children)
             /\ node'[cur'].mbr = common_mbr(<<node[cur'].mbr, geoms[geom].mbr>>)
             /\ Encloses(node'[cur'].mbr, geoms[geom].mbr)
       /\ InsertReturns =>
             \A n \in PathBelowRoot(cur) :
                 Encloses(node[n].mbr, geoms[geom].mbr)]_vars

\* insert has descended two levels to a leaf whose mbr it enlarged, and is
\* about to append the entry
C21_DescendedToEnlargedLeaf ==
    /\ pc = "insert"
    /\ node[cur].kind = "Leafs"
    /\ Cardinality(PathBelowRoot(cur)) >= 2
    /\ node[cur].mbr.area > 0
    /\ \A n \in PathBelowRoot(cur) : Encloses(node[n].mbr, geoms[geom].mbr)

\* a step of insert goes on: into one child of the current node, or insert
\* returns from a leaf
InsertGoesOn ==
    pc = "insert" =>
        \/ pc' = "idle" /\ node[cur].kind = "Leafs"
        \/ pc' = "insert" /\ cur' \in Range(node[cur].children)

\* a step of the distribution loop, in the split of a node that held
\* max_children + 1 children, goes on: at most max_children - 1 objects are
\* assigned, nothing aborts, and the loop ends only with the source empty
DistributionGoesOn ==
    (pc = "distribute" /\ SplitOfOverflow) =>
        /\ pc' \in {"distribute", "executed"}
        /\ it_i' <= node[cur].max_children - 1
        /\ pc' = "executed" => node'[cur].children = <<>>

\* C22: every insert descends through one child per level and returns at a
\* leaf, and the distribution loop of every split of a node holding
\* max_children + 1 children ends with the source collection empty after at
\* most max_children - 1 steps, without aborting.
C22_OperationsRunToCompletion ==
    [][InsertGoesOn /\ DistributionGoesOn]_vars

\* how many times entry e is stored in the leaves under the root, in arena nd
Occurrences(nd, e) ==
    Cardinality({q \in Subtree(root) \X (1..Len(geoms') + 1) :
                    /\ nd[q[1]].kind = "Leafs"
                    /\ q[2] <= Len(nd[q[1]].children)
                    /\ nd[q[1]].children[q[2]] = e})

\* the driver's call of insert with a fresh entry: nothing is stored yet
InsertCalledFrame ==
    (pc = "idle" /\ pc' = "insert") =>
        /\ node' = node
        /\ SubSeq(geoms', 1, Len(geoms)) = geoms
        /\ Occurrences(node, geom') = 0

\* a step of insert before the append: no entry changes, no node other than
\* the one insert goes on in changes, and that one keeps its children
InsertDescentFrame ==
    (pc = "insert" /\ pc' # "idle") =>
        /\ geoms' = geoms
        /\ \A n \in 1..Len(node) :
              /\ n # cur' => node'[n] = node[n]
              /\ node'[n].children = node[n].children

\* the append: no entry changes, no node other than the leaf changes, the
\* inserted entry is stored once and every other entry as often as before
InsertAppendFrame ==
    InsertReturns =>
        /\ geoms' = geoms
        /\ \A n \in 1..Len(node) : n # cur => node'[n] = node[n]
        /\ Occurrences(node', geom) = 1
        /\ \A e \in 1..Len(geoms) :
              e # geom => Occurrences(node', e) = Occurrences(node, e)

\* C23: an insert call adds its entry to exactly one leaf exactly once, keeps
\* every stored entry where it is and as often as it was, changes the mbr of
\* no entry, and leaves the children and mbr of every node off the descent
\* path unchanged.
C23_InsertKeepsEntries ==
    [][InsertCalledFrame /\ InsertDescentFrame /\ InsertAppendFrame]_vars

\* insert has returned from a leaf below the root that held an entry before,
\* and every entry created so far is stored exactly once
C23_EntryAddedToStoredOnes ==
    /\ pc = "idle"
    /\ geom # 0
    /\ \E l \in Subtree(root) \ {root} :
          /\ node[l].kind = "Leafs"
          /\ Len(node[l].children) >= 2
          /\ node[l].children[Len(node[l].children)] = geom
    /\ \A e \in 1..Len(geoms) :
          Cardinality({q \in Subtree(root) \X (1..Len(geoms)) :
                          /\ node[q[1]].kind = "Leafs"
                          /\ q[2] <= Len(node[q[1]].children)
                          /\ node[q[1]].children[q[2]] = e}) = 1

====
